---- MODULE Spec2Model ----
(***************************************************************************)
(* Book Scanner (GUI.py): the page directory TEMP_DIR, the thumbnail       *)
(* strip, the selection, the camera handle and the handlers of            *)
(* BookScannerApp, as a state machine.                                     *)
(*                                                                         *)
(* A file name is modelled by its stem, a sequence of character codes:     *)
(* the digits 0..9 are the codes 0..9 and Letter is a letter, which sorts  *)
(* after every digit.  pathlib orders the paths of one directory by their  *)
(* names as strings, and the '.' of ".png" is smaller than every digit and *)
(* letter, so a stem that is a proper prefix of another sorts first.       *)
(***************************************************************************)
EXTENDS Integers, Sequences, FiniteSets

VARIABLES
    dir,             \* TEMP_DIR: stem of each *.png file |-> its content
    thumbnails,      \* the strip: the stem each thumbnail was loaded from
    selected_index,  \* self.selected_index (0-based) or None
    cap,             \* the camera handle: "unopened", "failed", "open", "released"
    pc,              \* "init", "running", "closed", "crashed", "nocamera"
    pdf,             \* the file written by the last export
    nops,            \* captures, deletes, exports and outside changes so far
    total,           \* frames written since the directory was empty, all sessions
    oob,             \* history: the directory was changed from outside
    nreleases,       \* how many times cap.release() ran
    created,         \* history: every sequence number a page was ever created with
    pristine,        \* history: started from an empty directory, nothing deleted
    selected_page,   \* history: the stem shown by the thumbnail that was clicked
    before,          \* history: dir as the last handler found it
    last             \* history: what the last handler did

vars == <<dir, thumbnails, selected_index, cap, pc, pdf, nops, total, oob, nreleases,
          created, pristine, selected_page, before, last>>

(* ---------------------------- bounds ----------------------------------- *)
\* captures, confirmed deletes, exports and outside changes of one run
MaxOps == 3
\* SpecLong starts from the directories left by the last LongRuns numbers of
\* captures below MaxPadded.
LongRuns == 30

(* ------------------------- program constants --------------------------- *)
PadWidth == 4
\* the largest number whose name still has PadWidth digits
MaxPadded == 10^PadWidth - 1
None == 0 - 1
Letter == 10
NoPath == <<>>
\* contents of a file: a frame number >= 1, OldFrame for a page of an earlier
\* session or a foreign image, Corrupt for a file PIL cannot open.
OldFrame == 0
Corrupt == 0 - 2

(* ------------------------- names and numbers --------------------------- *)
Min(S) == CHOOSE x \in S : \A y \in S : x <= y
Max(S) == CHOOSE x \in S : \A y \in S : y <= x

\* int(stem) succeeds
IsNumeric(s) == Len(s) > 0 /\ \A i \in 1..Len(s) : s[i] \in 0..9

RECURSIVE ParseInt(_)
ParseInt(s) ==
    IF Len(s) = 0 THEN 0
    ELSE 10 * ParseInt(SubSeq(s, 1, Len(s) - 1)) + s[Len(s)]

RECURSIVE Digits(_)
Digits(n) == IF n < 10 THEN <<n>> ELSE Append(Digits(n \div 10), n % 10)

\* f"{n:04d}": zero-padded to PadWidth, longer numbers are not cut
Format04d(n) ==
    LET d == Digits(n)
    IN  IF Len(d) >= PadWidth THEN d
        ELSE [i \in 1..(PadWidth - Len(d)) |-> 0] \o d

\* a < b as pathlib compares two names of one directory
PathLess(a, b) ==
    \/ Len(a) < Len(b) /\ \A j \in 1..Len(a) : a[j] = b[j]
    \/ \E i \in 1..Len(a) :
          /\ i <= Len(b)
          /\ a[i] < b[i]
          /\ \A j \in 1..(i - 1) : a[j] = b[j]

\* the last element of sorted(S), found position by position
RECURSIVE LastFrom(_, _)
LastFrom(S, i) ==
    LET T == {s \in S : Len(s) >= i}
    IN  IF T = {} THEN CHOOSE s \in S : TRUE
        ELSE LET m == Max({s[i] : s \in T})
             IN  LastFrom({s \in T : s[i] = m}, i + 1)

SortedLast(S) == LastFrom(S, 1)

\* sorted(TEMP_DIR.glob("*.png")) as a sequence of stems
RECURSIVE sorted(_)
sorted(S) ==
    IF S = {} THEN <<>>
    ELSE LET m == SortedLast(S) IN Append(sorted(S \ {m}), m)

glob(d) == DOMAIN d

(* ---------------------------- helpers ---------------------------------- *)
\* next_filename(): the stem of the file to write, or NoPath when int() raises
next_filename(d) ==
    LET existing == glob(d)
    IN  IF existing = {} THEN Format04d(1)
        ELSE LET stem == SortedLast(existing)
             IN  IF IsNumeric(stem) THEN Format04d(ParseInt(stem) + 1)
                 ELSE NoPath

\* cv2.imwrite(path, frame): creates the file or overwrites it
imwrite(d, path, frame) ==
    [s \in DOMAIN d \cup {path} |-> IF s = path THEN frame ELSE d[s]]

\* img_path.unlink(missing_ok=True)
unlink(d, path) == [s \in DOMAIN d \ {path} |-> d[s]]

\* add_thumbnail(path): the new label gets index len(self.thumbnails)
add_thumbnail(thumbs, path) == Append(thumbs, path)

\* load_existing_images() on an empty strip: one thumbnail per file in sorted
\* order; load_thumbnail raises at the first file PIL cannot open.
load_existing_images(d) ==
    LET s == sorted(glob(d))
        bad == {i \in 1..Len(s) : d[s[i]] = Corrupt}
    IN  IF bad = {} THEN [thumbs |-> s, raised |-> FALSE]
        ELSE [thumbs |-> SubSeq(s, 1, Min(bad) - 1), raised |-> TRUE]

Did(op, ok, raised, path, idx, page, known) ==
    [op |-> op, ok |-> ok, raised |-> raised, path |-> path, idx |-> idx,
     page |-> page, known |-> known]

Numbers(d) == {ParseInt(s) : s \in {t \in DOMAIN d : IsNumeric(t)}}

\* the directory N captures into an empty directory leave (N <= MaxPadded)
PristineDir(n) == [s \in {Format04d(i) : i \in 1..n} |-> ParseInt(s)]

(* ----------------------------- initial state --------------------------- *)
\* The directory survives restarts: the process may start on the pages an
\* earlier session left, one of which may be a partial write.
InitNums == {1, 2, MaxPadded}

InitCommon ==
    /\ selected_index = None
    /\ pdf = <<>>
    /\ nops = 0
    /\ oob = FALSE
    /\ nreleases = 0
    /\ selected_page = NoPath
    /\ before = dir
    /\ last = Did("none", FALSE, FALSE, NoPath, None, NoPath, {})

Init ==
    /\ \E ns \in SUBSET InitNums : \E bad \in SUBSET ns :
          /\ Cardinality(bad) <= 1
          /\ dir = [s \in {Format04d(n) : n \in ns} |->
                       IF ParseInt(s) \in bad THEN Corrupt ELSE OldFrame]
          /\ created = ns
          /\ pristine = (ns = {})
    /\ total = 0
    /\ pc = "init"
    /\ cap = "unopened"
    /\ thumbnails = <<>>
    /\ InitCommon

(* ------------------------------- actions ------------------------------- *)
\* __init__, lines 64-67: the camera cannot be opened
ConstructNoCamera ==
    /\ pc = "init"
    /\ cap' = "failed"
    /\ pc' = "nocamera"
    /\ before' = dir
    /\ last' = Did("construct", FALSE, FALSE, NoPath, None, NoPath, {})
    /\ UNCHANGED <<dir, thumbnails, selected_index, pdf, nops, total, oob,
                   nreleases, created, pristine, selected_page>>

\* __init__, lines 64-102: the camera opens, the existing pages are loaded.
\* An exception of load_existing_images leaves __init__ and ends the process.
Construct ==
    /\ pc = "init"
    /\ LET r == load_existing_images(dir)
       IN  /\ thumbnails' = r.thumbs
           /\ pc' = IF r.raised THEN "crashed" ELSE "running"
           /\ last' = Did("construct", ~r.raised, r.raised, NoPath, None, NoPath, {})
    /\ cap' = "open"
    /\ selected_index' = None
    /\ before' = dir
    /\ UNCHANGED <<dir, pdf, nops, total, oob, nreleases, created, pristine,
                   selected_page>>

\* capture_page, lines 121-124: cap.read() gives no frame
CaptureNoFrame ==
    /\ pc = "running"
    /\ before' = dir
    /\ last' = Did("capture", FALSE, FALSE, NoPath, None, NoPath, created)
    /\ UNCHANGED <<dir, thumbnails, selected_index, cap, pc, pdf, nops, total, oob,
                   nreleases, created, pristine, selected_page>>

\* capture_page, lines 121-127, with a frame
CapturePage ==
    /\ pc = "running"
    /\ nops < MaxOps
    /\ LET filepath == next_filename(dir)
           frame == total + 1
       IN  IF filepath = NoPath
           THEN \* int(existing[-1].stem) raised ValueError
                /\ last' = Did("capture", TRUE, TRUE, NoPath, None, NoPath, created)
                /\ UNCHANGED <<dir, thumbnails, created, nops, total>>
           ELSE /\ dir' = imwrite(dir, filepath, frame)
                /\ thumbnails' = add_thumbnail(thumbnails, filepath)
                /\ created' = created \cup {ParseInt(filepath)}
                /\ nops' = nops + 1
                /\ total' = frame
                /\ last' = Did("capture", TRUE, FALSE, filepath, None, NoPath, created)
    /\ before' = dir
    /\ UNCHANGED <<selected_index, cap, pc, pdf, oob, nreleases, pristine,
                   selected_page>>

\* select_thumbnail(idx), lines 143-149: a click on the thumbnail bound to idx
SelectThumbnail ==
    /\ pc = "running"
    /\ \E idx \in 0..(Len(thumbnails) - 1) :
          /\ selected_index' = idx
          /\ selected_page' = thumbnails[idx + 1]
          /\ last' = Did("select", TRUE, FALSE, thumbnails[idx + 1], idx, NoPath, {})
    /\ before' = dir
    /\ UNCHANGED <<dir, thumbnails, cap, pc, pdf, nops, total, oob, nreleases,
                   created, pristine>>

\* delete_selected, lines 152-154: nothing is selected
DeleteNoSelection ==
    /\ pc = "running"
    /\ selected_index = None
    /\ before' = dir
    /\ last' = Did("delete", FALSE, FALSE, NoPath, None, NoPath, {})
    /\ UNCHANGED <<dir, thumbnails, selected_index, cap, pc, pdf, nops, total, oob,
                   nreleases, created, pristine, selected_page>>

\* the listing read from its end
img_path_reversed(d, idx) == sorted(glob(d))[Cardinality(glob(d)) - idx]

\* the file delete_selected names in its question: position idx of the listing
img_path(d, idx) == sorted(glob(d))[idx + 1]

\* delete_selected, lines 155-163; answer is the user's reply to askyesno
DeleteSelected ==
    /\ pc = "running"
    /\ selected_index # None
    /\ before' = dir
    /\ IF selected_index >= Cardinality(glob(dir))
       THEN \* sorted(...)[self.selected_index] raised IndexError
            /\ last' = Did("delete", FALSE, TRUE, NoPath, selected_index,
                           selected_page, {})
            /\ UNCHANGED <<dir, thumbnails, selected_index, selected_page, nops,
                           pristine>>
       ELSE \E answer \in BOOLEAN :
              LET victim == img_path(dir, selected_index)
              IN  IF answer
                  THEN LET d == unlink(dir, victim)
                           r == load_existing_images(d)
                       IN  /\ nops < MaxOps
                           /\ dir' = d
                           /\ thumbnails' = r.thumbs
                           /\ selected_index' = None
                           /\ selected_page' = NoPath
                           /\ nops' = nops + 1
                           /\ pristine' = FALSE
                           /\ last' = Did("delete", TRUE, r.raised, victim,
                                          selected_index, selected_page, {})
                  ELSE /\ last' = Did("delete", FALSE, FALSE, victim,
                                      selected_index, selected_page, {})
                       /\ UNCHANGED <<dir, thumbnails, selected_index,
                                      selected_page, nops, pristine>>
    /\ UNCHANGED <<cap, pc, pdf, total, oob, nreleases, created>>

\* img2pdf.convert(images): one PDF page per image, in the order given
convert(d, images) ==
    [i \in 1..Len(images) |-> [name |-> images[i], content |-> d[images[i]]]]

\* make_pdf, lines 167-176; chosen is FALSE when the save dialog is cancelled
MakePdf ==
    /\ pc = "running"
    /\ before' = dir
    /\ LET images == sorted(glob(dir))
       IN  IF images = <<>>
           THEN /\ last' = Did("pdf", FALSE, FALSE, NoPath, None, NoPath, {})
                /\ UNCHANGED <<pdf, nops>>
           ELSE \E chosen \in BOOLEAN :
                  IF ~chosen
                  THEN /\ last' = Did("pdf", FALSE, FALSE, NoPath, None, NoPath, {})
                       /\ UNCHANGED <<pdf, nops>>
                  ELSE /\ nops < MaxOps
                       /\ nops' = nops + 1
                       /\ IF \E i \in 1..Len(images) : dir[images[i]] = Corrupt
                          THEN \* open(dest, "wb") truncated dest, convert raised
                               /\ last' = Did("pdf", FALSE, TRUE, NoPath, None, NoPath, {})
                               /\ pdf' = <<>>
                          ELSE /\ last' = Did("pdf", TRUE, FALSE, NoPath, None, NoPath, {})
                               /\ pdf' = convert(dir, images)
    /\ UNCHANGED <<dir, thumbnails, selected_index, cap, pc, total, oob, nreleases,
                   created, pristine, selected_page>>

\* on_closing, lines 179-182: WM_DELETE_WINDOW
OnClosing ==
    /\ pc = "running"
    /\ IF cap = "open"
       THEN cap' = "released" /\ nreleases' = nreleases + 1
       ELSE UNCHANGED <<cap, nreleases>>
    /\ pc' = "closed"
    /\ before' = dir
    /\ last' = Did("close", TRUE, FALSE, NoPath, None, NoPath, {})
    /\ UNCHANGED <<dir, thumbnails, selected_index, pdf, nops, total, oob, created,
                   pristine, selected_page>>

(* ------------- the directory changed from outside the program ---------- *)
\* "Open temp" shows TEMP_DIR in the file manager: a file named 0000.png or
\* x.png is copied in, or a page is removed there.
ExternalStems == {<<0, 0, 0, 0>>, <<Letter>>}

ExternalAdd ==
    /\ pc = "running"
    /\ nops < MaxOps
    /\ \E s \in ExternalStems \ DOMAIN dir :
          /\ dir' = imwrite(dir, s, OldFrame)
          /\ last' = Did("external", TRUE, FALSE, s, None, NoPath, {})
    /\ nops' = nops + 1
    /\ oob' = TRUE
    /\ pristine' = FALSE
    /\ before' = dir
    /\ UNCHANGED <<thumbnails, selected_index, cap, pc, pdf, total, nreleases,
                   created, selected_page>>

ExternalRemove ==
    /\ pc = "running"
    /\ nops < MaxOps
    /\ \E s \in DOMAIN dir :
          /\ dir' = unlink(dir, s)
          /\ last' = Did("external", TRUE, FALSE, s, None, NoPath, {})
    /\ nops' = nops + 1
    /\ oob' = TRUE
    /\ pristine' = FALSE
    /\ before' = dir
    /\ UNCHANGED <<thumbnails, selected_index, cap, pc, pdf, total, nreleases,
                   created, selected_page>>

Next ==
    \/ ConstructNoCamera
    \/ Construct
    \/ CaptureNoFrame
    \/ CapturePage
    \/ SelectThumbnail
    \/ DeleteNoSelection
    \/ DeleteSelected
    \/ MakePdf
    \/ OnClosing
    \/ ExternalAdd
    \/ ExternalRemove

Spec == Init /\ [][Next]_vars

(* -------- append-only runs that reach the end of the 4-digit names ------ *)
\* The state after n captures into an empty directory, nothing deleted, for
\* the last LongRuns values of n below MaxPadded (PristineShape below is the
\* same shape, checked on the runs of Spec that start from the empty directory).
InitLong ==
    /\ \E n \in (MaxPadded - LongRuns)..(MaxPadded - 1) :
          /\ dir = PristineDir(n)
          /\ thumbnails = [i \in 1..n |-> Format04d(i)]
          /\ total = n
          /\ created = 1..n
    /\ pristine = TRUE
    /\ pc = "running"
    /\ cap = "open"
    /\ InitCommon

NextLong == CaptureNoFrame \/ CapturePage \/ OnClosing

SpecLong == InitLong /\ [][NextLong]_vars

(* ------------------------------ properties ----------------------------- *)
StrictlyAscending(q) ==
    \A i \in 1..Len(q) : \A j \in 1..Len(q) :
        i < j => ParseInt(q[i]) < ParseInt(q[j])

\* The listing sorted() builds is in the order pathlib compares names.
SortedByPathOrder ==
    LET q == sorted(glob(dir))
    IN  \A i \in 1..Len(q) : \A j \in 1..Len(q) : i < j => PathLess(q[i], q[j])

\* While a run has only appended to an empty directory and the names still
\* have PadWidth digits, the directory, the strip and the history are those
\* InitLong starts from.
PristineShape ==
    (pristine /\ pc = "running" /\ total <= MaxPadded) =>
        /\ dir = PristineDir(total)
        /\ thumbnails = [i \in 1..total |-> Format04d(i)]
        /\ created = 1..total

\* C1: the number given to a newly captured page differs from the number of
\* every page ever created before, deleted pages included.  Stated for the
\* numbers that fit the padding, where the listing is in numeric order.
C1_NeverReused ==
    (~oob /\ last.op = "capture" /\ last.path # NoPath
          /\ ParseInt(last.path) <= MaxPadded) =>
        ParseInt(last.path) \notin last.known

\* C2: without outside changes, the listing the program uses,
\* sorted(TEMP_DIR.glob("*.png")), is strictly ascending by sequence number
\* (so it holds no number twice), also past the padding width.
C2_ListingAscending ==
    (~oob /\ pc = "running") => StrictlyAscending(sorted(glob(dir)))

\* C3: a capture that got a frame leaves exactly one more page, every earlier
\* page still there with its content, and the new number greater than the
\* number of every page present before.
C3_CaptureAddsOne ==
    (~oob /\ last.op = "capture" /\ last.ok) =>
        /\ ~last.raised
        /\ Cardinality(glob(dir)) = Cardinality(glob(before)) + 1
        /\ \A s \in glob(before) :
              /\ s \in glob(dir)
              /\ dir[s] = before[s]
              /\ ParseInt(last.path) > ParseInt(s)

\* C4: on an empty directory next_filename gives number 1, and after N
\* captures into an empty directory with no deletion it gives N + 1.
C4_NextIsCountPlusOne ==
    (pristine /\ pc = "running") =>
        /\ next_filename(dir) # NoPath
        /\ ParseInt(next_filename(dir)) = total + 1

\* C5: a confirmed delete removes exactly the file at position idx of the
\* listing of the directory as the handler found it, that file is not in the
\* next listing and every other file is there unchanged; a delete with
\* nothing selected, or declined, removes nothing.
C5_DeleteRemovesListed ==
    last.op = "delete" =>
        IF last.ok
        THEN /\ last.idx \in 0..(Cardinality(glob(before)) - 1)
             /\ LET victim == sorted(glob(before))[last.idx + 1]
                    after == sorted(glob(dir))
                IN  /\ glob(dir) = glob(before) \ {victim}
                    /\ Cardinality(glob(dir)) = Cardinality(glob(before)) - 1
                    /\ \A i \in 1..Len(after) : after[i] # victim
                    /\ \A s \in glob(dir) : dir[s] = before[s]
        ELSE dir = before

C5_Witness ==
    /\ last.op = "delete"
    /\ last.ok
    /\ last.idx >= 1
    /\ Cardinality(glob(before)) >= 3

\* C6: a delete removes the page whose thumbnail was clicked or nothing,
\* whatever happened to the directory between the click and the delete.
C6_DeleteOnlySelected ==
    (last.op = "delete" /\ last.ok) => last.path = last.page

\* C7: without outside changes, an export leaves the page files and their
\* contents as they were, and the PDF has one page per file, with the file's
\* content, in ascending order of sequence number.
C7_ExportKeepsAndOrders ==
    (~oob /\ last.op = "pdf" /\ last.ok) =>
        /\ dir = before
        /\ Len(pdf) = Cardinality(glob(dir))
        /\ \A i \in 1..Len(pdf) :
              pdf[i].name \in glob(dir) /\ pdf[i].content = dir[pdf[i].name]
        /\ \A i \in 1..Len(pdf) : \A j \in 1..Len(pdf) :
              i < j => ParseInt(pdf[i].name) < ParseInt(pdf[j].name)

\* C8: whenever the process has ended after the camera was opened, by the
\* window being closed or by an error during startup, the handle has been
\* released exactly once.
C8_ReleasedOnEveryExit ==
    (pc \in {"closed", "crashed"} /\ cap \in {"open", "released"}) =>
        cap = "released" /\ nreleases = 1

\* C9: a capture in a directory holding a file whose stem is no number does
\* not raise: it creates the page numbered one more than the largest numbered
\* page (1 if there is none) and leaves the other file as it was.
C9_SkipsNonConforming ==
    (last.op = "capture" /\ last.ok /\ \E s \in glob(before) : ~IsNumeric(s)) =>
        /\ ~last.raised
        /\ last.path = Format04d(IF Numbers(before) = {} THEN 1
                                 ELSE Max(Numbers(before)) + 1)
        /\ \A s \in glob(before) :
              ~IsNumeric(s) => s \in glob(dir) /\ dir[s] = before[s]

\* C10: without outside changes, the strip shows the listing: as many
\* thumbnails as files, thumbnail i showing file i of the listing; the
\* selection is None or a position of the listing, and the file the delete
\* question would name is the page that was clicked.
C10_StripMatchesListing ==
    (~oob /\ pc = "running") =>
        /\ thumbnails = sorted(glob(dir))
        /\ selected_index = None \/ selected_index \in 0..(Cardinality(glob(dir)) - 1)
        /\ selected_index # None => img_path(dir, selected_index) = selected_page

====
